---------------------------- MODULE Spec2Model ----------------------------
(***************************************************************************)
(* Model of imap-print (src/main.go): one run of the batch job.            *)
(*                                                                         *)
(* Strings are sequences of one-character strings, so that strings.Split,  *)
(* strings.ToLower and the exact comparison of inArrStr are computed and   *)
(* not assumed.  Every call the program makes to a collaborator (IMAP      *)
(* client, CUPS client, file system) and every line it logs is appended to *)
(* `trace`, in program order.                                              *)
(*                                                                         *)
(* Not modelled: Mail.Date and Mail.Subject (no decision reads them), the  *)
(* content of the log lines "Date", "Subject" and "Text" of logmail.       *)
(***************************************************************************)
EXTENDS Integers, Sequences, FiniteSets, TLC

\* ------------------------------------------------------------------ bounds

\* Largest number of messages in the selected mailbox.
MaxMessages == 2

\* Largest number of attachments of a mail handed to isValid on its own.
MaxAttachments == 2

\* Largest number of parts of a message handed to convert on its own.
MaxParts == 2

\* Largest number of FETCH responses the server sends beyond the requested
\* range (unsolicited responses of the same command).
MaxExtra == 1

\* ----------------------------------------------------------------- strings

\* strings.ToLower, on the characters the model uses.
LowerChar(c) ==
    CASE c = "A" -> "a"
      [] c = "D" -> "d"
      [] c = "F" -> "f"
      [] c = "P" -> "p"
      [] OTHER -> c

ToLower(s) == [i \in 1..Len(s) |-> LowerChar(s[i])]

\* strings.Split(s, sep) for a one-character separator: the pieces of s
\* between the separators, in order; one piece more than s has separators.
Split(s, sep) ==
    LET at == { i \in 1..Len(s) : s[i] = sep }
        n == Cardinality(at)
        \* the position of the j-th separator
        pos(j) == CHOOSE i \in at : Cardinality({ d \in at : d < i }) = j - 1
        first(j) == IF j = 1 THEN 1 ELSE pos(j - 1) + 1
        last(j) == IF j = n + 1 THEN Len(s) ELSE pos(j) - 1
    IN  [j \in 1..(n + 1) |-> SubSeq(s, first(j), last(j))]

\* inArrStr: s is an element of a, compared exactly.
inArrStr(s, a) == \E i \in 1..Len(a) : a[i] = s

\* ------------------------------------------------------------------- Mail

hasAttachments(m) == Len(m.Attachments) > 0

\* The mutant of validAttachments: the extension is compared as written.
validAttachmentsNoLower(m, extensions) ==
    IF Len(m.Attachments) = 0 THEN FALSE
    ELSE \E i \in 1..Len(m.Attachments) :
            LET parts == Split(m.Attachments[i].File, ".")
            IN  /\ Len(parts) > 1
                /\ inArrStr(parts[Len(parts)], extensions)

\* validAttachments: some attachment's File, split at ".", has more than one
\* piece and its last piece, lowercased, is in extensions.
validAttachments(m, extensions) ==
    IF Len(m.Attachments) = 0 THEN FALSE
    ELSE \E i \in 1..Len(m.Attachments) :
            LET parts == Split(m.Attachments[i].File, ".")
            IN  /\ Len(parts) > 1
                /\ inArrStr(ToLower(parts[Len(parts)]), extensions)

isValidSender(m, allowed) == inArrStr(m.From, allowed)

\* The mutant of isValid: the sender is not checked.
isValidAnySender(m, allowed, extensions) ==
    hasAttachments(m) /\ validAttachments(m, extensions)

isValid(m, allowed, extensions) ==
    hasAttachments(m) /\ validAttachments(m, extensions) /\ isValidSender(m, allowed)

\* ------------------------------------------------------------------ inputs

S_a == <<"a", "@", "x">>
S_A == <<"A", "@", "x">>
S_s == <<"s", "@", "y">>

F_PDF  == <<"r", ".", "P", "D", "F">>
F_pdf  == <<"r", ".", "p", "d", "f">>
F_doc  == <<"r", ".", "d", "o", "c">>
F_note == <<"n", "o", "t", "e">>

X_pdf == <<"p", "d", "f">>
X_PDF == <<"P", "D", "F">>
X_doc == <<"d", "o", "c">>

\* One part of a MIME message as the mail reader hands it out: the type of
\* its header and, for an attachment, the declared filename.
Part(kind, filename) == [kind |-> kind, filename |-> filename]

\* One fetched message: whether the server returned a body for the section
\* ("nil": none, "badmime": one that mail.CreateReader rejects), the first
\* address of its From header (<<>> when absent or unparseable), its parts.
RawMsg(body, from, parts) == [body |-> body, from |-> from, parts |-> parts]

\* A FETCH response that carries no body section.
NoBodyMsg == RawMsg("nil", <<>>, <<>>)

MessagePool ==
    { RawMsg("ok", S_a, <<Part("inline", <<>>), Part("attachment", F_PDF)>>),
      RawMsg("ok", S_a, <<Part("attachment", F_doc), Part("attachment", F_pdf)>>),
      RawMsg("ok", S_A, <<Part("attachment", F_pdf)>>),
      RawMsg("ok", S_s, <<Part("other", <<>>), Part("attachment", F_note)>>),
      RawMsg("badmime", <<>>, <<>>),
      NoBodyMsg }

\* The mailboxes of the run: every sequence of at most MaxMessages messages.
Mailboxes == UNION { [1..n -> MessagePool] : n \in 0..MaxMessages }

\* The resolved sender and extension allow-lists (Config.Allowed,
\* Config.Extensions).
AllowedChoices == { <<S_a>> }
ExtensionsChoices == { <<X_pdf>>, <<>> }

\* os.TempDir(): $TMPDIR or /tmp; one value without and one with a ".".
OsTempDirs == { <<"/", "t", "m", "p">>, <<"/", "t", ".", "d">> }

\* os.TempDir() of the runs of the whole program.
RunTempDirs == { <<"/", "t", "m", "p">> }

\* A decimal digit of the random part ioutil.TempFile puts in a name.
Digit(n) == <<CASE n = 0 -> "0" [] n = 1 -> "1" [] n = 2 -> "2" [] n = 3 -> "3"
                [] n = 4 -> "4" [] n = 5 -> "5" [] n = 6 -> "6" [] n = 7 -> "7"
                [] n = 8 -> "8" [] OTHER -> "9">>

\* ioutil.TempDir("", "imap-print-").
TempDirName(ostmp) ==
    ostmp \o <<"/", "i", "m", "a", "p", "-", "p", "r", "i", "n", "t", "-", "0">>

\* ioutil.TempFile(dir, "*_"+filename), for a filename without "*": the
\* random digits replace the "*".
TempFileName(dir, digits, filename) == dir \o <<"/">> \o digits \o <<"_">> \o filename

\* ------------------------------------------------------------------- state

VARIABLES
    pc,          \* where the main goroutine is
    exitCode,    \* the process's exit status, -1 while it runs
    DryRun,      \* cmd.DryRun
    Verbose,     \* cmd.Verbose
    Allowed,     \* cmd.cfg.Allowed
    Extensions,  \* cmd.cfg.Extensions
    osTempDir,   \* os.TempDir()
    TmpDir,      \* cmd.TmpDir
    mailbox,     \* the messages of the selected mailbox, on the server
    flagged,     \* the sequence numbers the server has flagged \Deleted
    expunged,    \* whether the server has expunged the flagged messages
    msgcount,    \* cmd.mbox.Messages
    fpc,         \* where the goroutine of getMails is
    wire,        \* the FETCH responses the server sends for the command
    sent,        \* how many of them c.Fetch has put into messages
    messages,    \* getMails: the channel messages (its buffer)
    closed,      \* getMails: whether messages has been closed
    done,        \* getMails: the channel done (its buffer, capacity 1)
    received,    \* how many messages the range loop of getMails has taken
    mails,       \* getMails: mails
    attachments, \* action: attachments
    idx,         \* doprint: the index of the range loop
    trace,       \* the calls made and the lines logged, in order
    polIn,       \* isValid on its own: the mail and the two allow-lists
    polOut,      \* isValid on its own: the results, once computed
    conf,        \* config on its own: environment, flags and cmd.cfg
    conv         \* convert on its own: the message, its reads and writes, the Mail

vars == <<pc, exitCode, DryRun, Verbose, Allowed, Extensions, osTempDir, TmpDir,
          mailbox, flagged, expunged, msgcount, fpc, wire, sent, messages,
          closed, done, received, mails, attachments, idx, trace, polIn, polOut,
          conf, conv>>

cfgVars == <<DryRun, Verbose, Allowed, Extensions, osTempDir, mailbox, polIn, polOut,
             conf, conv>>
srvVars == <<flagged, expunged>>
fetchVars == <<fpc, wire, sent, messages, closed, done, received>>

\* A call to a collaborator.
Call(op, arg) == <<[op |-> op, title |-> "", arg |-> arg]>>

\* logpad: one line of output.
logpad(title, v) == <<[op |-> "log", title |-> title, arg |-> v]>>

\* logverb: the line, when the run is verbose.
logverb(verbose, title, v) == IF verbose THEN logpad(title, v) ELSE <<>>

\* attachments as a Go slice: nil, or a slice with its elements.
NilSlice == [isNil |-> TRUE, elems |-> <<>>]
Slice(s) == [isNil |-> FALSE, elems |-> s]

\* isValid on its own: no input, no result yet.
NoPolicyInput == [m |-> [From |-> <<>>, Body |-> <<>>, Attachments |-> <<>>],
                  allowed |-> <<>>, extensions |-> <<>>]
NoPolicyResult == [done |-> FALSE, ValidSender |-> FALSE, HasAttachments |-> FALSE,
                   ValidAttachments |-> FALSE, Status |-> FALSE]

\* config on its own: nothing read, nothing resolved.
NoConf == [env |-> <<>>, flags |-> <<>>, cfg |-> <<>>, err |-> FALSE, done |-> FALSE]

\* convert on its own: no message, no Mail.
NoConv == [msg |-> <<>>, io |-> <<>>, m |-> <<>>, valid |-> FALSE, done |-> FALSE]

Init ==
    /\ polIn = NoPolicyInput
    /\ polOut = NoPolicyResult
    /\ conf = NoConf
    /\ conv = NoConv
    /\ pc = "config"
    /\ exitCode = -1
    /\ DryRun \in BOOLEAN
    /\ Verbose \in BOOLEAN
    /\ Allowed \in AllowedChoices
    /\ Extensions \in ExtensionsChoices
    /\ osTempDir \in RunTempDirs
    /\ TmpDir = <<>>
    /\ mailbox \in Mailboxes
    /\ flagged = {}
    /\ expunged = FALSE
    /\ msgcount = 0
    /\ fpc = "idle"
    /\ wire = <<>>
    /\ sent = 0
    /\ messages = <<>>
    /\ closed = FALSE
    /\ done = <<>>
    /\ received = 0
    /\ mails = <<>>
    /\ attachments = NilSlice
    /\ idx = 0
    /\ trace = <<>>

\* --------------------------------------------------------------- bootstrap

\* The process ends with the given status.
Exit(code) == pc' = "exited" /\ exitCode' = code

\* bootstrap, to the end of cmd.config(): the flags are read; a
\* configuration that does not load or validate ends the run.
BootstrapConfig ==
    /\ pc = "config"
    /\ \E ok \in BOOLEAN :
        IF ok THEN pc' = "dial" /\ exitCode' = exitCode
        ELSE Exit(1)
    /\ UNCHANGED <<TmpDir, msgcount, mails, attachments, idx, trace>>
    /\ UNCHANGED <<cfgVars, srvVars, fetchVars>>

\* bootstrap: client.DialTLS.
BootstrapDial ==
    /\ pc = "dial"
    /\ \E ok \in BOOLEAN :
        /\ trace' = trace \o Call("DialTLS", <<>>)
        /\ IF ok THEN pc' = "login" /\ exitCode' = exitCode
           ELSE Exit(1)
    /\ UNCHANGED <<TmpDir, msgcount, mails, attachments, idx>>
    /\ UNCHANGED <<cfgVars, srvVars, fetchVars>>

\* bootstrap: Login; on failure the connection is closed.
BootstrapLogin ==
    /\ pc = "login"
    /\ \E ok \in BOOLEAN :
        IF ok
        THEN /\ trace' = trace \o Call("Login", <<>>)
             /\ pc' = "select" /\ exitCode' = exitCode
        ELSE /\ trace' = trace \o Call("Login", <<>>) \o Call("Close", <<>>)
             /\ Exit(1)
    /\ UNCHANGED <<TmpDir, msgcount, mails, attachments, idx>>
    /\ UNCHANGED <<cfgVars, srvVars, fetchVars>>

\* bootstrap: Select; cmd.mbox.Messages is the number of messages the
\* mailbox holds now.  On failure: Close, then Logout.
BootstrapSelect ==
    /\ pc = "select"
    /\ \E ok \in BOOLEAN :
        IF ok
        THEN /\ trace' = trace \o Call("Select", <<>>)
             /\ msgcount' = Len(mailbox)
             /\ pc' = "tempdir" /\ exitCode' = exitCode
        ELSE /\ trace' = trace \o Call("Select", <<>>) \o Call("Close", <<>>)
                            \o Call("Logout", <<>>)
             /\ msgcount' = msgcount
             /\ Exit(1)
    /\ UNCHANGED <<TmpDir, mails, attachments, idx>>
    /\ UNCHANGED <<cfgVars, srvVars, fetchVars>>

\* bootstrap: ioutil.TempDir and the verbose summary of the configuration.
BootstrapTempDir ==
    /\ pc = "tempdir"
    /\ \E ok \in BOOLEAN :
        IF ok
        THEN /\ TmpDir' = TempDirName(osTempDir)
             /\ trace' = trace \o Call("TempDir", TempDirName(osTempDir))
                            \o (IF DryRun THEN logpad("Dry-Run", DryRun)
                                ELSE logverb(Verbose, "Dry-Run", DryRun))
                            \o logverb(Verbose, "TmpDir", TempDirName(osTempDir))
             /\ pc' = "action" /\ exitCode' = exitCode
        ELSE /\ TmpDir' = <<>>
             /\ trace' = trace \o Call("TempDir", <<>>) \o Call("Close", <<>>)
                            \o Call("Logout", <<>>)
             /\ Exit(1)
    /\ UNCHANGED <<msgcount, mails, attachments, idx>>
    /\ UNCHANGED <<cfgVars, srvVars, fetchVars>>

\* ------------------------------------------------------------------ convert

\* What can happen when convert asks for the part at position i: NextPart
\* may fail ("next_err"); reading an inline part may fail; creating the temp
\* file or copying into it may fail.  Position Len(parts)+1 is the end of
\* the stream: io.EOF, or an error of NextPart.
PartOutcomes(parts, i) ==
    IF i > Len(parts) THEN {"eof", "next_err"}
    ELSE IF parts[i].kind = "inline" THEN {"ok", "read_fail", "next_err"}
    ELSE IF parts[i].kind = "attachment"
         THEN {"ok", "create_fail", "copy_fail", "next_err"}
    ELSE {"ok", "next_err"}

\* Every way the reads and writes of one conversion can turn out.
IoOutcomes(parts) ==
    { io \in [1..(Len(parts) + 1) ->
                {"ok", "eof", "next_err", "read_fail", "create_fail", "copy_fail"}] :
        \A i \in 1..(Len(parts) + 1) : io[i] \in PartOutcomes(parts, i) }

\* The Mail convert starts from.
NewMail(from) == [From |-> from, Body |-> <<>>, Attachments |-> <<>>]

\* The mutant of convertPart: after a failed copy the attachment is appended
\* all the same.
convertPartKeepPartial(part, out, dir, k, i, m) ==
    IF part.kind = "inline"
    THEN IF out = "read_fail" THEN m
         ELSE [m EXCEPT !.Body = <<"b">>]
    ELSE IF part.kind = "attachment"
    THEN IF out = "create_fail" THEN m
         ELSE [m EXCEPT !.Attachments = Append(@,
                  [File |-> TempFileName(dir, Digit(k) \o Digit(i), part.filename),
                   Name |-> part.filename])]
    ELSE m

\* convert, the body of the switch for one part, on the Mail m built so far.
\* The temp file of the i-th part of the k-th message gets the digits k, i.
convertPart(part, out, dir, k, i, m) ==
    IF part.kind = "inline"
    THEN IF out = "read_fail" THEN m
         ELSE [m EXCEPT !.Body = <<"b">>]
    ELSE IF part.kind = "attachment"
    THEN IF out = "create_fail" THEN m
         ELSE IF out = "copy_fail" THEN m
         ELSE [m EXCEPT !.Attachments = Append(@,
                  [File |-> TempFileName(dir, Digit(k) \o Digit(i), part.filename),
                   Name |-> part.filename])]
    ELSE m

\* convert, the loop over the parts from position i on: it ends at io.EOF
\* and at an error of NextPart.
RECURSIVE convertLoop(_, _, _, _, _, _)
convertLoop(parts, io, i, dir, k, m) ==
    IF io[i] = "eof" \/ io[i] = "next_err" THEN m
    ELSE convertLoop(parts, io, i + 1, dir, k,
                     convertPart(parts[i], io[i], dir, k, i, m))

\* convert of the k-th message, whose body the mail reader opened.
convert(msg, io, dir, k) == convertLoop(msg.parts, io, 1, dir, k, NewMail(msg.from))

\* ------------------------------------------------------------------ action

\* The mutant of noMessages: the check for an empty mailbox never fires.
noMessagesNever(n) == FALSE

\* action, line 127: cmd.mbox.Messages == 0.
noMessages(n) == n = 0

\* The mutant of seqset: the range misses the last message.
seqsetShort(n) == <<1, n - 1>>

\* action, lines 132-133: the sequence set 1:cmd.mbox.Messages, as the pair
\* of its ends.
seqset(n) == <<1, n>>

\* The sequence numbers of a sequence set.
SeqNums(r) == r[1]..r[2]

\* The mutant of actionOrder: the attachments are printed before the cleanup.
actionOrderPrintFirst(p) ==
    CASE p = "getAttachments" -> "doprint"
      [] p = "doprint" -> "delexpunge"
      [] p = "delexpunge" -> "return"

\* action, lines 140-145: what follows each call: getAttachments, then
\* delexpunge, then doprint, then the return.
actionOrder(p) ==
    CASE p = "getAttachments" -> "delexpunge"
      [] p = "delexpunge" -> "doprint"
      [] p = "doprint" -> "return"

\* action, lines 127-130: an empty mailbox ends the process at once.
ActionStart ==
    /\ pc = "action"
    /\ IF noMessages(msgcount)
       THEN /\ trace' = trace \o logpad("No Messages", <<>>)
            /\ Exit(0)
       ELSE /\ trace' = trace
            /\ pc' = "getMails" /\ exitCode' = exitCode
    /\ UNCHANGED <<TmpDir, msgcount, mails, attachments, idx>>
    /\ UNCHANGED <<cfgVars, srvVars, fetchVars>>

\* getMails, lines 205-213: the channels are made and the goroutine that
\* runs c.Fetch on 1:msgcount is started.  The server answers with the
\* messages of the mailbox and at most MaxExtra further responses.
GetMailsStart ==
    /\ pc = "getMails"
    /\ \E extra \in 0..MaxExtra :
        wire' = mailbox \o [i \in 1..extra |-> NoBodyMsg]
    /\ messages' = <<>>
    /\ closed' = FALSE
    /\ done' = <<>>
    /\ sent' = 0
    /\ fpc' = "running"
    /\ trace' = trace \o Call("Fetch", seqset(msgcount))
    /\ pc' = "await"
    /\ UNCHANGED <<exitCode, TmpDir, msgcount, received, mails, attachments, idx>>
    /\ UNCHANGED <<cfgVars, srvVars>>

\* c.Fetch hands the next response to the channel messages; it blocks while
\* the buffer of msgcount places is full.
FetchDeliver ==
    /\ fpc = "running"
    /\ sent < Len(wire)
    /\ Len(messages) < msgcount
    /\ messages' = Append(messages, wire[sent + 1])
    /\ sent' = sent + 1
    /\ UNCHANGED <<pc, exitCode, TmpDir, msgcount, fpc, wire, closed, done, received,
                   mails, attachments, idx, trace>>
    /\ UNCHANGED <<cfgVars, srvVars>>

\* c.Fetch returns nil after the last response: it closes messages, and the
\* goroutine sends nil on done.
FetchReturn ==
    /\ fpc = "running"
    /\ sent = Len(wire)
    /\ closed' = TRUE
    /\ done' = Append(done, "nil")
    /\ fpc' = "returned"
    /\ UNCHANGED <<pc, exitCode, TmpDir, msgcount, wire, sent, messages, received,
                   mails, attachments, idx, trace>>
    /\ UNCHANGED <<cfgVars, srvVars>>

\* c.Fetch returns an error (the transport failed): it closes messages, and
\* the goroutine sends the error on done.
FetchError ==
    /\ fpc = "running"
    /\ closed' = TRUE
    /\ done' = Append(done, "err")
    /\ fpc' = "failed"
    /\ UNCHANGED <<pc, exitCode, TmpDir, msgcount, wire, sent, messages, received,
                   mails, attachments, idx, trace>>
    /\ UNCHANGED <<cfgVars, srvVars>>

\* The mutant of afterDone: the error of the fetch is ignored.
afterDoneIgnoreError(err) == [pc |-> "range", exitCode |-> -1]

\* getMails, lines 215-217, and action, lines 136-138: an error received
\* from done is returned to action, whose log.Fatal ends the process with
\* status 1; without error getMails goes on to the range over messages.
afterDone(err) ==
    IF err THEN [pc |-> "exited", exitCode |-> 1]
    ELSE [pc |-> "range", exitCode |-> -1]

\* getMails, line 215: the receive from done.
AwaitDone ==
    /\ pc = "await"
    /\ done # <<>>
    /\ done' = Tail(done)
    /\ LET r == afterDone(Head(done) = "err")
       IN  /\ pc' = r.pc
           /\ exitCode' = r.exitCode
           /\ trace' = IF r.pc = "exited"
                       THEN trace \o logpad("Error getting messages:", <<>>)
                       ELSE trace
    /\ UNCHANGED <<TmpDir, msgcount, fpc, wire, sent, messages, closed, received,
                   mails, attachments, idx>>
    /\ UNCHANGED <<cfgVars, srvVars>>

\* The mutant of onBadBody: the message is skipped and the range goes on.
onBadBodySkip == [pc |-> "range", exitCode |-> -1]

\* convert, lines 269-278: a message without body for the section, and a
\* body mail.CreateReader rejects, end the process through log.Fatal, with
\* status 1.
onBadBody == [pc |-> "exited", exitCode |-> 1]

\* getMails, lines 221-234: one iteration of the range over messages.  A
\* message without body, or one the mail reader cannot open, ends the
\* process (log.Fatal in convert); convert returns no other error.
GetMailsConvert ==
    /\ pc = "range"
    /\ messages # <<>>
    /\ messages' = Tail(messages)
    /\ received' = received + 1
    /\ LET msg == Head(messages)
       IN  IF msg.body # "ok"
           THEN /\ trace' = trace \o logpad("fatal", <<>>)
                /\ pc' = onBadBody.pc
                /\ exitCode' = onBadBody.exitCode
                /\ mails' = mails
           ELSE \E io \in IoOutcomes(msg.parts) :
                  /\ mails' = Append(mails, convert(msg, io, TmpDir, received + 1))
                  /\ trace' = trace
                  /\ pc' = pc /\ exitCode' = exitCode
    /\ UNCHANGED <<TmpDir, msgcount, fpc, wire, sent, closed, done, attachments, idx>>
    /\ UNCHANGED <<cfgVars, srvVars>>

\* getMails, lines 236-240: messages is closed and empty, the range ends
\* and the mails are returned.
GetMailsReturn ==
    /\ pc = "range"
    /\ messages = <<>>
    /\ closed
    /\ pc' = "getAttachments"
    /\ UNCHANGED <<exitCode, TmpDir, msgcount, mails, attachments, idx, trace>>
    /\ UNCHANGED <<cfgVars, srvVars, fetchVars>>

\* ----------------------------------------------------------- getAttachments

\* logmail: the verbose decision trace of one mail.
logmail(verbose, m, allowed, extensions) ==
    logverb(verbose, "From", m.From)
    \o logverb(verbose, "Attachments", Len(m.Attachments))
    \o logverb(verbose, "ValidSender", isValidSender(m, allowed))
    \o logverb(verbose, "HasAttachments", hasAttachments(m))
    \o logverb(verbose, "ValidAttachments", validAttachments(m, extensions))
    \o logverb(verbose, "Status", isValid(m, allowed, extensions))

\* The mutant of getAttachmentsLoop: of a valid mail only the attachments
\* whose extension is in the list are taken.
RECURSIVE getAttachmentsLoopMatchingOnly(_, _, _, _)
getAttachmentsLoopMatchingOnly(ms, i, allowed, extensions) ==
    IF i > Len(ms) THEN <<>>
    ELSE LET Matches(a) == validAttachments([ms[i] EXCEPT !.Attachments = <<a>>],
                                            extensions)
         IN  (IF ~isValid(ms[i], allowed, extensions) THEN <<>>
              ELSE SelectSeq(ms[i].Attachments, Matches))
             \o getAttachmentsLoopMatchingOnly(ms, i + 1, allowed, extensions)

\* getAttachments, lines 248-257: what the loop appends from mail i on: the
\* attachments of each valid mail, all of them, and nothing of the others.
RECURSIVE getAttachmentsLoop(_, _, _, _)
getAttachmentsLoop(ms, i, allowed, extensions) ==
    IF i > Len(ms) THEN <<>>
    ELSE (IF ~isValid(ms[i], allowed, extensions) THEN <<>>
          ELSE ms[i].Attachments)
         \o getAttachmentsLoop(ms, i + 1, allowed, extensions)

\* getAttachments, line 249: the lines the loop logs from mail i on.
RECURSIVE getAttachmentsLog(_, _, _, _, _)
getAttachmentsLog(ms, i, allowed, extensions, verbose) ==
    IF i > Len(ms) THEN <<>>
    ELSE logmail(verbose, ms[i], allowed, extensions)
         \o getAttachmentsLog(ms, i + 1, allowed, extensions, verbose)

\* getAttachments: the slice is nil until the first append, and a nil slice
\* is replaced by an empty one before the return.
getAttachments(ms, allowed, extensions) ==
    LET appended == getAttachmentsLoop(ms, 1, allowed, extensions)
        acc == IF Len(appended) = 0 THEN NilSlice ELSE Slice(appended)
    IN  IF acc.isNil THEN Slice(<<>>) ELSE acc

\* action, line 140.
GetAttachments ==
    /\ pc = "getAttachments"
    /\ attachments' = getAttachments(mails, Allowed, Extensions)
    /\ trace' = trace \o getAttachmentsLog(mails, 1, Allowed, Extensions, Verbose)
    /\ pc' = actionOrder("getAttachments")
    /\ UNCHANGED <<exitCode, TmpDir, msgcount, mails, idx>>
    /\ UNCHANGED <<cfgVars, srvVars, fetchVars>>

\* ---------------------------------------------------------------- delexpunge

\* The mutant of onStoreError: Expunge is attempted after a failed Store.
onStoreErrorExpunge == [pc |-> "expunge", exitCode |-> -1]

\* The mutant of onStoreError: a failed Store ends the process.
onStoreErrorFatal == [pc |-> "exited", exitCode |-> 1]

\* delexpunge, lines 374-376: a failed Store is logged and delexpunge
\* returns, without Expunge.
onStoreError == [pc |-> actionOrder("delexpunge"), exitCode |-> -1]

\* delexpunge, lines 365-376: nothing but a verbose line in a dry run;
\* otherwise Store of \Deleted on the sequence set.  A Store that fails may
\* have flagged a proper prefix of the range.
DelExpungeStore ==
    /\ pc = "delexpunge"
    /\ IF DryRun
       THEN /\ trace' = trace \o logverb(Verbose, "Cleanup", <<>>)
            /\ flagged' = flagged
            /\ pc' = actionOrder("delexpunge")
            /\ exitCode' = exitCode
       ELSE \E ok \in BOOLEAN :
              IF ok
              THEN /\ trace' = trace \o logverb(Verbose, "Cleanup", <<>>)
                                 \o Call("Store", seqset(msgcount))
                   /\ flagged' = flagged \cup SeqNums(seqset(msgcount))
                   /\ pc' = "expunge"
                   /\ exitCode' = exitCode
              ELSE /\ trace' = trace \o logverb(Verbose, "Cleanup", <<>>)
                                 \o Call("Store", seqset(msgcount))
                                 \o logverb(Verbose, "IMAP Store Error", <<>>)
                   /\ \E k \in 0..(msgcount - 1) : flagged' = flagged \cup (1..k)
                   /\ pc' = onStoreError.pc
                   /\ exitCode' = onStoreError.exitCode
    /\ UNCHANGED <<TmpDir, msgcount, mails, attachments, idx, expunged>>
    /\ UNCHANGED <<cfgVars, fetchVars>>

\* delexpunge, lines 377-379: Expunge after a Store that succeeded.
DelExpungeExpunge ==
    /\ pc = "expunge"
    /\ \E ok \in BOOLEAN :
        IF ok
        THEN /\ trace' = trace \o Call("Expunge", <<>>)
             /\ expunged' = TRUE
        ELSE /\ trace' = trace \o Call("Expunge", <<>>)
                           \o logpad("IMAP Expunge Error", <<>>)
             /\ expunged' = expunged
    /\ pc' = actionOrder("delexpunge")
    /\ UNCHANGED <<exitCode, TmpDir, msgcount, mails, attachments, idx, flagged>>
    /\ UNCHANGED <<cfgVars, fetchVars>>

\* ------------------------------------------------------------------ doprint

\* doprint, lines 386-391: a nil slice is "Nothing to do"; otherwise the
\* CUPS client is made and the range over attachments starts.
DoPrintStart ==
    /\ pc = "doprint"
    /\ IF attachments.isNil
       THEN /\ trace' = trace \o logpad("Printing", <<"Nothing to do">>)
            /\ idx' = idx
            /\ pc' = actionOrder("doprint")
       ELSE /\ trace' = trace \o Call("NewCUPSClient", <<>>)
            /\ idx' = 1
            /\ pc' = IF Len(attachments.elems) = 0 THEN actionOrder("doprint")
                     ELSE "printloop"
    /\ UNCHANGED <<exitCode, TmpDir, msgcount, mails, attachments>>
    /\ UNCHANGED <<cfgVars, srvVars, fetchVars>>

\* The mutant of doprintStep: the dry-run switch is not consulted.
doprintStepIgnoreDryRun(dry, verbose, file, ok, i, n) ==
    IF ~ok
    THEN [log |-> logpad("Printing", file) \o Call("PrintFile", file)
                    \o logverb(verbose, "JobID", <<"error">>),
          next |-> i + 1]
    ELSE [log |-> logpad("Printing", file) \o Call("PrintFile", file)
                    \o logverb(verbose, "JobID", <<"job">>),
          next |-> i + 1]

\* The mutant of doprintStep: a failed submission ends the loop.
doprintStepStopOnError(dry, verbose, file, ok, i, n) ==
    IF dry
    THEN [log |-> logpad("Printing", file) \o logverb(verbose, "JobID", <<"123456">>),
          next |-> i + 1]
    ELSE IF ~ok
    THEN [log |-> logpad("Printing", file) \o Call("PrintFile", file)
                    \o logverb(verbose, "JobID", <<"error">>),
          next |-> n + 1]
    ELSE [log |-> logpad("Printing", file) \o Call("PrintFile", file)
                    \o logverb(verbose, "JobID", <<"job">>),
          next |-> i + 1]

\* doprint, lines 393-409, one iteration for the i-th of n attachments: what
\* it appends to the trace and the index the loop goes on with.
doprintStep(dry, verbose, file, ok, i, n) ==
    IF dry
    THEN [log |-> logpad("Printing", file) \o logverb(verbose, "JobID", <<"123456">>),
          next |-> i + 1]
    ELSE IF ~ok
    THEN [log |-> logpad("Printing", file) \o Call("PrintFile", file)
                    \o logverb(verbose, "JobID", <<"error">>),
          next |-> i + 1]
    ELSE [log |-> logpad("Printing", file) \o Call("PrintFile", file)
                    \o logverb(verbose, "JobID", <<"job">>),
          next |-> i + 1]

\* doprint: one iteration of the range over attachments.
DoPrintStep ==
    /\ pc = "printloop"
    /\ idx <= Len(attachments.elems)
    /\ \E ok \in (IF DryRun THEN {TRUE} ELSE BOOLEAN) :
        LET r == doprintStep(DryRun, Verbose, attachments.elems[idx].File, ok,
                             idx, Len(attachments.elems))
        IN  /\ trace' = trace \o r.log
            /\ idx' = r.next
            /\ pc' = IF r.next > Len(attachments.elems) THEN actionOrder("doprint")
                     ELSE "printloop"
    /\ UNCHANGED <<exitCode, TmpDir, msgcount, mails, attachments>>
    /\ UNCHANGED <<cfgVars, srvVars, fetchVars>>

\* ----------------------------------------------------------------- shutdown

\* The mutant of shutdown: cmd.TmpDir is removed without the guard.
shutdownNoGuard(tmpdir, ostmp) ==
    Call("Logout", <<>>) \o Call("Close", <<>>) \o Call("RemoveAll", tmpdir)

\* shutdown: Logout, Close, and the removal of the scratch directory unless
\* its path is empty or os.TempDir().
shutdown(tmpdir, ostmp) ==
    Call("Logout", <<>>) \o Call("Close", <<>>)
    \o (IF tmpdir # <<>> /\ tmpdir # ostmp THEN Call("RemoveAll", tmpdir) ELSE <<>>)

\* action, line 145: return nil runs the deferred shutdown; main returns and
\* the process ends with status 0.
ActionReturn ==
    /\ pc = "return"
    /\ trace' = trace \o shutdown(TmpDir, osTempDir)
    /\ Exit(0)
    /\ UNCHANGED <<TmpDir, msgcount, mails, attachments, idx>>
    /\ UNCHANGED <<cfgVars, srvVars, fetchVars>>

\* ----------------------------------------------------------- specification

Next ==
    \/ BootstrapConfig
    \/ BootstrapDial
    \/ BootstrapLogin
    \/ BootstrapSelect
    \/ BootstrapTempDir
    \/ ActionStart
    \/ GetMailsStart
    \/ FetchDeliver
    \/ FetchReturn
    \/ FetchError
    \/ AwaitDone
    \/ GetMailsConvert
    \/ GetMailsReturn
    \/ GetAttachments
    \/ DelExpungeStore
    \/ DelExpungeExpunge
    \/ DoPrintStart
    \/ DoPrintStep
    \/ ActionReturn

Spec == Init /\ [][Next]_vars

\* The steps of action after getMails has returned: each is a call that
\* returns, so the main goroutine does not stop while one of them is
\* possible.  The runs are the verbose ones with the one extension
\* allow-list that lets mails through: neither choice decides which step
\* comes next.
AfterGetMails ==
    \/ GetAttachments
    \/ DelExpungeStore
    \/ DelExpungeExpunge
    \/ DoPrintStart
    \/ DoPrintStep
    \/ ActionReturn

FairInit ==
    /\ Init
    /\ Verbose = TRUE
    /\ Extensions = <<X_pdf>>

FairSpec == FairInit /\ [][Next]_vars /\ WF_vars(AfterGetMails)

\* ------------------------------------------------- the admission policy alone

\* The attachments convert can produce: a declared filename, stored in a
\* temp file of either scratch directory that is named after it.
PolicyFiles ==
    { [File |-> TempFileName(TempDirName(d), <<"1", "1">>, f), Name |-> f] :
        d \in OsTempDirs, f \in {F_PDF, F_pdf, F_doc, F_note} }

PolicyAttachments ==
    UNION { [1..n -> PolicyFiles] : n \in 0..MaxAttachments }

\* An entry of the extension allow-list that is no file extension: the text
\* after the "." of the scratch root /t.d in the storage path of "note".
X_path == <<"d", "/", "i", "m", "a", "p", "-", "p", "r", "i", "n", "t", "-", "0",
            "/", "1", "1", "_", "n", "o", "t", "e">>

PolicySenders == { S_a, S_A, S_s, <<>> }
PolicyAllowed == { <<>>, <<S_a>>, <<S_s, S_a>>, <<S_A>> }
PolicyExtensions == { <<>>, <<X_pdf>>, <<X_PDF>>, <<X_doc, X_pdf>>, <<X_path>> }

\* A mail, a sender allow-list and an extension allow-list; nothing else of
\* the run is in play.
PolicyInit ==
    /\ polIn \in [m : [From : PolicySenders, Body : {<<>>}, Attachments : PolicyAttachments],
                  allowed : PolicyAllowed, extensions : PolicyExtensions]
    /\ polOut = NoPolicyResult
    /\ conf = NoConf
    /\ conv = NoConv
    /\ pc = "policy"
    /\ exitCode = -1
    /\ DryRun = FALSE
    /\ Verbose = TRUE
    /\ Allowed = polIn.allowed
    /\ Extensions = polIn.extensions
    /\ osTempDir = <<>>
    /\ TmpDir = <<>>
    /\ mailbox = <<>>
    /\ flagged = {}
    /\ expunged = FALSE
    /\ msgcount = 0
    /\ fpc = "idle"
    /\ wire = <<>>
    /\ sent = 0
    /\ messages = <<>>
    /\ closed = FALSE
    /\ done = <<>>
    /\ received = 0
    /\ mails = <<>>
    /\ attachments = NilSlice
    /\ idx = 0
    /\ trace = <<>>

\* The four checks of a mail, as logmail and getAttachments make them.
PolicyEvaluate ==
    /\ pc = "policy"
    /\ ~polOut.done
    /\ polOut' = [done |-> TRUE,
                  ValidSender |-> isValidSender(polIn.m, polIn.allowed),
                  HasAttachments |-> hasAttachments(polIn.m),
                  ValidAttachments |-> validAttachments(polIn.m, polIn.extensions),
                  Status |-> isValid(polIn.m, polIn.allowed, polIn.extensions)]
    /\ UNCHANGED <<pc, exitCode, DryRun, Verbose, Allowed, Extensions, osTempDir, TmpDir,
                   mailbox, flagged, expunged, msgcount, fpc, wire, sent, messages,
                   closed, done, received, mails, attachments, idx, trace, polIn,
                   conf, conv>>

PolicyNext == PolicyEvaluate

PolicySpec == PolicyInit /\ [][PolicyNext]_vars

\* ------------------------------------------------------------- config alone

\* strings.TrimSpace, for the one white-space character the model uses.
TrimSpace(s) ==
    LET ns == { i \in 1..Len(s) : s[i] # " " }
    IN  IF ns = {} THEN <<>>
        ELSE SubSeq(s, CHOOSE i \in ns : \A j \in ns : i <= j,
                       CHOOSE i \in ns : \A j \in ns : i >= j)

\* The default mailbox name.
MailboxName == <<"I", "N", "B", "O", "X">>

\* setarg: the flag's value, trimmed, replaces the field of cmd.cfg that
\* goes with the name, unless it is empty; "mbox" also unless it is the
\* default name.
setarg(name, flags, cfg) ==
    LET v == TrimSpace(flags[name])
    IN  IF v = <<>> THEN cfg
        ELSE CASE name = "addr" -> [cfg EXCEPT !.Addr = v]
               [] name = "user" -> [cfg EXCEPT !.User = v]
               [] name = "pass" -> [cfg EXCEPT !.Pass = v]
               [] name = "mbox" -> IF v # MailboxName THEN [cfg EXCEPT !.Mailbox = v]
                                   ELSE cfg
               [] name = "printer" -> [cfg EXCEPT !.Printer = v]
               [] name = "allowed" -> [cfg EXCEPT !.Allowed = Split(v, ":")]
               [] name = "extensions" -> [cfg EXCEPT !.Extensions = Split(v, ":")]
               [] OTHER -> cfg

\* config, lines 433-439: the calls of setarg, in the order of the code, on
\* the configuration env.Parse filled.
setargs(flags, cfg) ==
    LET c1 == setarg("addr", flags, cfg)
        c2 == setarg("user", flags, c1)
        c3 == setarg("printer", flags, c2)
        c4 == setarg("mbox", flags, c3)
        c5 == setarg("printer", flags, c4)
        c6 == setarg("allowed", flags, c5)
    IN  setarg("extensions", flags, c6)

\* config, lines 441-445: the fields tagged validate:"required".
validate(cfg) ==
    /\ cfg.Addr # <<>> /\ cfg.User # <<>> /\ cfg.Pass # <<>>
    /\ cfg.Mailbox # <<>> /\ cfg.Printer # <<>>

\* The values of the environment (after env.Parse) and of the flags (as
\* c.String returns them: <<>> for a flag that is not given, the default
\* name for an mbox flag that is not given).
EnvConfigs ==
    [Addr : {<<>>, <<"e">>}, User : {<<"e">>}, Pass : {<<>>, <<"e">>},
     Mailbox : {MailboxName, <<"e">>}, Printer : {<<"e">>},
     Allowed : {<<<<"e">>>>}, Extensions : {<<>>, <<<<"e">>>>}]

FlagValues ==
    [addr : {<<>>, <<" ">>, <<" ", "f">>}, user : {<<>>, <<"f">>},
     pass : {<<>>, <<"f">>}, mbox : {MailboxName, <<"f">>},
     printer : {<<>>, <<"f">>}, allowed : {<<>>, <<"f", ":", "g">>},
     extensions : {<<>>, <<"f">>}]

ConfigInit ==
    /\ conf \in [env : EnvConfigs, flags : FlagValues, cfg : {<<>>},
                  err : {FALSE}, done : {FALSE}]
    /\ conv = NoConv
    /\ polIn = NoPolicyInput
    /\ polOut = NoPolicyResult
    /\ pc = "configure"
    /\ exitCode = -1
    /\ DryRun = FALSE
    /\ Verbose = FALSE
    /\ Allowed = <<>>
    /\ Extensions = <<>>
    /\ osTempDir = <<>>
    /\ TmpDir = <<>>
    /\ mailbox = <<>>
    /\ flagged = {}
    /\ expunged = FALSE
    /\ msgcount = 0
    /\ fpc = "idle"
    /\ wire = <<>>
    /\ sent = 0
    /\ messages = <<>>
    /\ closed = FALSE
    /\ done = <<>>
    /\ received = 0
    /\ mails = <<>>
    /\ attachments = NilSlice
    /\ idx = 0
    /\ trace = <<>>

\* config, lines 423-447: cmd.cfg from the environment, then the flags, then
\* the validation; bootstrap leaves with status 1 when it fails.
ConfigResolve ==
    /\ pc = "configure"
    /\ LET cfg == setargs(conf.flags, conf.env)
       IN  /\ conf' = [conf EXCEPT !.cfg = cfg, !.err = ~validate(cfg), !.done = TRUE]
           /\ Allowed' = cfg.Allowed
           /\ Extensions' = cfg.Extensions
           /\ IF validate(cfg) THEN pc' = "dial" /\ exitCode' = exitCode
              ELSE Exit(1)
    /\ UNCHANGED <<DryRun, Verbose, osTempDir, TmpDir, mailbox, flagged, expunged,
                   msgcount, fpc, wire, sent, messages, closed, done, received,
                   mails, attachments, idx, trace, polIn, polOut, conv>>

ConfigNext == ConfigResolve

ConfigSpec == ConfigInit /\ [][ConfigNext]_vars

\* ------------------------------------------------------------ convert alone

\* The parts a message handed to convert on its own is made of, and the
\* messages: every sequence of at most MaxParts parts, from an allowed sender.
ConvertParts ==
    { Part("inline", <<>>), Part("other", <<>>), Part("attachment", F_pdf),
      Part("attachment", F_doc), Part("attachment", F_note) }

ConvertMessages ==
    { RawMsg("ok", S_a, parts) :
        parts \in UNION { [1..n -> ConvertParts] : n \in 0..MaxParts } }

\* A message whose body the mail reader opened, and one way its reads and
\* writes turn out; nothing else of the run is in play.
ConvertInit ==
    /\ conv \in UNION { { [msg |-> msg, io |-> io, m |-> <<>>, valid |-> FALSE,
                            done |-> FALSE] : io \in IoOutcomes(msg.parts) } :
                          msg \in ConvertMessages }
    /\ conf = NoConf
    /\ polIn = NoPolicyInput
    /\ polOut = NoPolicyResult
    /\ pc = "convert"
    /\ exitCode = -1
    /\ DryRun = FALSE
    /\ Verbose = FALSE
    /\ Allowed = <<S_a>>
    /\ Extensions = <<X_pdf>>
    /\ osTempDir = <<"/", "t", "m", "p">>
    /\ TmpDir = TempDirName(osTempDir)
    /\ mailbox = <<>>
    /\ flagged = {}
    /\ expunged = FALSE
    /\ msgcount = 0
    /\ fpc = "idle"
    /\ wire = <<>>
    /\ sent = 0
    /\ messages = <<>>
    /\ closed = FALSE
    /\ done = <<>>
    /\ received = 0
    /\ mails = <<>>
    /\ attachments = NilSlice
    /\ idx = 0
    /\ trace = <<>>

\* convert, and isValid on the Mail it returns.
ConvertApply ==
    /\ pc = "convert"
    /\ ~conv.done
    /\ LET m == convert(conv.msg, conv.io, TmpDir, 1)
       IN  conv' = [conv EXCEPT !.m = m, !.valid = isValid(m, Allowed, Extensions),
                                !.done = TRUE]
    /\ UNCHANGED <<pc, exitCode, DryRun, Verbose, Allowed, Extensions, osTempDir, TmpDir,
                   mailbox, flagged, expunged, msgcount, fpc, wire, sent, messages,
                   closed, done, received, mails, attachments, idx, trace, polIn,
                   polOut, conf>>

ConvertNext == ConvertApply

ConvertSpec == ConvertInit /\ [][ConvertNext]_vars

\* ----------------------------------------------------------- shutdown alone

\* The values os.TempDir() and cmd.TmpDir are given when shutdown is taken
\* on its own: three temp roots; and the empty path, each root itself and
\* the directories ioutil.TempDir makes under each root.
ShutdownRoots == OsTempDirs \cup { <<"/", "v">> }

ShutdownDirs ==
    {<<>>} \cup ShutdownRoots
    \cup { r \o <<"/", "i", "m", "a", "p", "-", "p", "r", "i", "n", "t", "-">> \o Digit(n) :
             r \in ShutdownRoots, n \in 0..9 }

ShutdownInit ==
    /\ osTempDir \in ShutdownRoots
    /\ TmpDir \in ShutdownDirs
    /\ pc = "shutdown"
    /\ conv = NoConv
    /\ conf = NoConf
    /\ polIn = NoPolicyInput
    /\ polOut = NoPolicyResult
    /\ exitCode = -1
    /\ DryRun = FALSE
    /\ Verbose = FALSE
    /\ Allowed = <<>>
    /\ Extensions = <<>>
    /\ mailbox = <<>>
    /\ flagged = {}
    /\ expunged = FALSE
    /\ msgcount = 0
    /\ fpc = "idle"
    /\ wire = <<>>
    /\ sent = 0
    /\ messages = <<>>
    /\ closed = FALSE
    /\ done = <<>>
    /\ received = 0
    /\ mails = <<>>
    /\ attachments = NilSlice
    /\ idx = 0
    /\ trace = <<>>

\* shutdown, as the deferred call of action runs it.
ShutdownApply ==
    /\ pc = "shutdown"
    /\ trace' = trace \o shutdown(TmpDir, osTempDir)
    /\ Exit(0)
    /\ UNCHANGED <<TmpDir, msgcount, mails, attachments, idx>>
    /\ UNCHANGED <<cfgVars, srvVars, fetchVars>>

ShutdownNext == ShutdownApply

ShutdownSpec == ShutdownInit /\ [][ShutdownNext]_vars

\* ------------------------------------------------------------ trace helpers

\* The positions of the trace that hold a call of op.
CallsOf(op) == { i \in 1..Len(trace) : trace[i].op = op }

\* The positions of the trace that hold a logged line with the title.
LogsOf(title) == { i \in 1..Len(trace) : trace[i].op = "log" /\ trace[i].title = title }

\* The calls that change the mailbox and the call that submits to a printer.
MutationCalls == CallsOf("Store") \cup CallsOf("Expunge")
PrintCalls == CallsOf("PrintFile")

\* The arguments of the trace's entries with the op and the title, in
\* order, from position i on.
RECURSIVE ArgsFrom(_, _, _)
ArgsFrom(i, op, title) ==
    IF i > Len(trace) THEN <<>>
    ELSE (IF trace[i].op = op /\ trace[i].title = title THEN <<trace[i].arg>> ELSE <<>>)
         \o ArgsFrom(i + 1, op, title)

\* The files submitted to the printer, the "Printing" lines and the "JobID"
\* lines, each in the order of the trace.
Submitted == ArgsFrom(1, "PrintFile", "")
PrintingLines == ArgsFrom(1, "log", "Printing")
JobIDLines == ArgsFrom(1, "log", "JobID")

\* The storage paths of the first k accumulated attachments.
FilesUpTo(k) == [i \in 1..k |-> attachments.elems[i].File]

\* action was entered: bootstrap created the scratch directory.
ActionEntered == TmpDir # <<>>

\* action returned normally: a mailbox with messages, and exit status 0.
Completed == pc = "exited" /\ exitCode = 0 /\ msgcount > 0

\* doprint has gone through all of its attachments.
PrintDone == pc = "return" \/ Completed

\* delexpunge has returned.
CleanupDone == pc \in {"doprint", "printloop", "return"} \/ Completed

\* ------------------------------------------------------------------ claims

\* C1, as stated: in a dry run no Store, no Expunge and no PrintFile call is
\* ever made, and when doprint is through, one placeholder job id has been
\* logged for each accumulated attachment.
C1_AsStated ==
    DryRun =>
        /\ MutationCalls = {}
        /\ PrintCalls = {}
        /\ PrintDone =>
             JobIDLines = [i \in 1..Len(attachments.elems) |-> <<"123456">>]

\* C1, amended: in a dry run no Store, no Expunge and no PrintFile call is
\* ever made and the mailbox is untouched; when doprint is through, it has
\* logged one "Printing" line per accumulated attachment, in order, and, in
\* a verbose run only, one placeholder job id per attachment; without
\* verbose no job id is logged.
C1_DryRunNoSideEffects ==
    DryRun =>
        /\ MutationCalls = {}
        /\ PrintCalls = {}
        /\ flagged = {} /\ ~expunged
        /\ PrintDone =>
             /\ PrintingLines = FilesUpTo(Len(attachments.elems))
             /\ JobIDLines =
                  IF Verbose THEN [i \in 1..Len(attachments.elems) |-> <<"123456">>]
                  ELSE <<>>

\* A dry run that has gone through doprint with two attachments or more.
C1_Witness ==
    /\ DryRun /\ Verbose
    /\ Completed
    /\ Len(attachments.elems) >= 2

\* C2: in a run that is no dry run, once delexpunge has returned, exactly
\* one Store was issued and its range is 1..N, N the number of messages of
\* the mailbox, whether or not the mails are valid; when it succeeded every
\* message of the mailbox is flagged.
C2_StoreWholeRange ==
    (~DryRun /\ (CleanupDone \/ pc = "expunge")) =>
        /\ Cardinality(CallsOf("Store")) = 1
        /\ \A i \in CallsOf("Store") : trace[i].arg = <<1, Len(mailbox)>>
        /\ Len(mailbox) > 0
        /\ (pc = "expunge" \/ CallsOf("Expunge") # {}) => flagged = 1..Len(mailbox)

\* Store succeeded on a mailbox of two messages, one valid and one not.
C2_Witness ==
    /\ ~DryRun
    /\ pc = "expunge"
    /\ Len(mails) = 2
    /\ flagged = {1, 2}
    /\ \E i, j \in 1..2 : /\ isValid(mails[i], Allowed, Extensions)
                          /\ ~isValid(mails[j], Allowed, Extensions)

\* C3: a Store or Expunge call is in the trace only when every response of
\* the fetch has been taken from the channel and converted and the
\* attachments have been accumulated; the CUPS client is made, and a file
\* submitted, only after delexpunge has run: in a run that is no dry run a
\* Store call precedes it, in a dry run delexpunge has returned; and no
\* Store or Expunge call follows a call to the printing subsystem.
C3_Ordering ==
    /\ MutationCalls # {} =>
         /\ fpc = "returned" /\ sent = Len(wire)
         /\ messages = <<>> /\ received = sent /\ Len(mails) = received
         /\ ~attachments.isNil
    /\ \A i \in CallsOf("NewCUPSClient") \cup PrintCalls :
         /\ ~attachments.isNil
         /\ DryRun \/ \E j \in CallsOf("Store") : j < i
         /\ \A j \in MutationCalls : j < i
    /\ pc \in {"doprint", "printloop"} => (DryRun \/ CallsOf("Store") # {})
    /\ pc = "delexpunge" => CallsOf("NewCUPSClient") \cup PrintCalls = {}

\* A run that is no dry run has submitted a file after a Store and an
\* Expunge.
C3_Witness ==
    /\ ~DryRun
    /\ PrintCalls # {}
    /\ CallsOf("Expunge") # {}
    /\ Len(mails) = 2

\* C4: when action runs on a mailbox that reported no message, no Fetch, no
\* Store, no Expunge is issued, doprint is not entered (no CUPS client, no
\* submission, no "Printing" line), and the process ends with status 0.
C4_EmptyMailbox ==
    (ActionEntered /\ msgcount = 0) =>
        /\ CallsOf("Fetch") = {}
        /\ MutationCalls = {}
        /\ CallsOf("NewCUPSClient") \cup PrintCalls = {}
        /\ LogsOf("Printing") = {}
        /\ pc \in {"action", "exited"}
        /\ pc = "exited" => exitCode = 0

\* action has ended the process on an empty mailbox.
C4_Witness ==
    /\ ActionEntered
    /\ msgcount = 0
    /\ pc = "exited"
    /\ LogsOf("No Messages") # {}

\* The elements of a list.
Members(list) == { list[i] : i \in 1..Len(list) }

\* The position of the last "." of a path, 0 when it has none; and the text
\* after it.
LastDot(path) ==
    IF \E i \in 1..Len(path) : path[i] = "."
    THEN CHOOSE i \in 1..Len(path) :
            path[i] = "." /\ \A j \in (i + 1)..Len(path) : path[j] # "."
    ELSE 0
ExtensionOf(path) == SubSeq(path, LastDot(path) + 1, Len(path))

\* The admission rule as the specification words it: some attachment, the
\* sender an exact member of the sender allow-list, and some attachment
\* whose storage path has a "." and whose extension, lowercased, is a member
\* of the extension allow-list.
Eligible(m, allowed, extensions) ==
    /\ Len(m.Attachments) >= 1
    /\ m.From \in Members(allowed)
    /\ \E i \in 1..Len(m.Attachments) :
         /\ LastDot(m.Attachments[i].File) > 0
         /\ ToLower(ExtensionOf(m.Attachments[i].File)) \in Members(extensions)

\* C5: isValid is true exactly when the mail has an attachment, its sender
\* is an exact (case-sensitive) member of the sender allow-list and the
\* extension of some attachment's storage path, lowercased, is a member of
\* the extension allow-list; a mail without attachment is never valid, and
\* a sender that is in the list only up to letter case is not valid.
C5_IsValidExactly ==
    polOut.done =>
        /\ polOut.Status <=> Eligible(polIn.m, polIn.allowed, polIn.extensions)
        /\ Len(polIn.m.Attachments) = 0 => ~polOut.Status
        /\ (/\ polIn.m.From \notin Members(polIn.allowed)
            /\ \E a \in Members(polIn.allowed) : ToLower(a) = ToLower(polIn.m.From))
              => ~polOut.Status

\* A mail found valid whose only matching attachment has the extension PDF
\* in upper case, against the entry pdf.
C5_Witness ==
    /\ polOut.done
    /\ polOut.Status
    /\ polIn.extensions = <<X_pdf>>
    /\ \A i \in 1..Len(polIn.m.Attachments) :
         ExtensionOf(polIn.m.Attachments[i].File) \in {X_PDF, X_doc}
    /\ \E i \in 1..Len(polIn.m.Attachments) :
         ExtensionOf(polIn.m.Attachments[i].File) = X_PDF

\* The attachments of the eligible mails among ms[i..], one mail after the
\* other.
RECURSIVE ConcatEligible(_, _)
ConcatEligible(ms, i) ==
    IF i > Len(ms) THEN <<>>
    ELSE (IF Eligible(ms[i], Allowed, Extensions) THEN ms[i].Attachments ELSE <<>>)
         \o ConcatEligible(ms, i + 1)

\* The declared filenames of the attachment parts of a message, in order.
AttachmentNames(parts) ==
    LET IsAttachment(p) == p.kind = "attachment"
        atts == SelectSeq(parts, IsAttachment)
    IN  [i \in 1..Len(atts) |-> atts[i].filename]

\* a is b with some of its elements left out.
RECURSIVE IsSubsequence(_, _)
IsSubsequence(a, b) ==
    IF Len(a) = 0 THEN TRUE
    ELSE IF Len(b) = 0 THEN FALSE
    ELSE IF Head(a) = Head(b) THEN IsSubsequence(Tail(a), Tail(b))
    ELSE IsSubsequence(a, Tail(b))

\* C6: the mails are the fetched messages in the order of the fetch, each
\* with its attachments in the order of its parts; and once getAttachments
\* has run, the attachments handed to doprint are the complete attachment
\* lists of the eligible mails, one mail after the other in that order, and
\* nothing of the other mails.
C6_AttachmentsOfEligibleMails ==
    /\ Len(mails) <= Len(wire)
    /\ \A i \in 1..Len(mails) :
         /\ mails[i].From = wire[i].from
         /\ IsSubsequence([j \in 1..Len(mails[i].Attachments) |-> mails[i].Attachments[j].Name],
                          AttachmentNames(wire[i].parts))
    /\ ~attachments.isNil => attachments.elems = ConcatEligible(mails, 1)

\* Two eligible mails gave three attachments, one of them a .doc that is
\* not in the extension allow-list.
C6_Witness ==
    /\ pc = "doprint"
    /\ Len(mails) = 2
    /\ Len(attachments.elems) = 3
    /\ \E i \in 1..3 : ExtensionOf(attachments.elems[i].File) = X_doc
    /\ X_doc \notin Members(Extensions)

\* C7: in a run that is no dry run, the files submitted so far are the
\* storage paths of the attachments the loop of doprint has passed, each
\* once and in their order; when doprint is through, those of all the
\* attachments, whatever the submissions returned.
C7_EveryAttachmentSubmitted ==
    ~DryRun =>
        Submitted = FilesUpTo(IF pc = "printloop" THEN idx - 1
                              ELSE IF PrintDone THEN Len(attachments.elems)
                              ELSE 0)

\* doprint is through three attachments although the first submission
\* failed.
C7_Witness ==
    /\ ~DryRun /\ Verbose
    /\ PrintDone
    /\ Len(attachments.elems) = 3
    /\ Len(Submitted) = 3
    /\ JobIDLines[1] = <<"error">>

\* Store succeeded: the server has flagged the whole range.
StoreSucceeded == msgcount > 0 /\ flagged = 1..msgcount

\* C8: Expunge is called at most once, only in a run that is no dry run,
\* only after a Store and only when that Store succeeded; and when
\* delexpunge has returned in such a run after a Store that succeeded,
\* Expunge was called.  After a Store that failed there is no Expunge.
C8_ExpungeIffStoreSucceeded ==
    /\ \A i \in CallsOf("Expunge") :
         /\ ~DryRun
         /\ StoreSucceeded
         /\ \E j \in CallsOf("Store") : j < i
    /\ Cardinality(CallsOf("Expunge")) <= 1
    /\ (CleanupDone /\ ~DryRun /\ StoreSucceeded) => CallsOf("Expunge") # {}
    /\ LogsOf("IMAP Store Error") # {} => CallsOf("Expunge") = {}
    /\ pc = "expunge" => (~DryRun /\ StoreSucceeded /\ CallsOf("Store") # {})

\* delexpunge has returned after a Store that failed, without Expunge.
C8_Witness ==
    /\ ~DryRun /\ Verbose
    /\ CleanupDone
    /\ CallsOf("Store") # {}
    /\ LogsOf("IMAP Store Error") # {}
    /\ ~StoreSucceeded
    /\ CallsOf("Expunge") = {}

\* doprint was entered.
PrintDispatched == CallsOf("NewCUPSClient") # {} \/ LogsOf("Printing") # {}

\* C9: from the moment getMails has returned the converted mails, the run
\* goes on to doprint and ends with exit status 0, whatever Store, Expunge
\* and the submissions return.
C9_CompletesWithStatusZero ==
    (pc = "getAttachments") ~> (Completed /\ PrintDispatched)

\* The run ended with status 0 after a failed Store and a failed submission.
C9_Witness ==
    /\ Completed
    /\ ~DryRun /\ Verbose
    /\ LogsOf("IMAP Store Error") # {}
    /\ \E i \in 1..Len(JobIDLines) : JobIDLines[i] = <<"error">>

\* C10: when c.Fetch has returned an error, no message is ever converted,
\* no Store, Expunge or printer call is made, and the only step left to the
\* run is the one that ends the process, with status 1.
C10_FetchErrorIsFatal ==
    fpc = "failed" =>
        /\ received = 0 /\ mails = <<>>
        /\ attachments.isNil
        /\ MutationCalls = {}
        /\ CallsOf("NewCUPSClient") \cup PrintCalls = {}
        /\ pc \in {"await", "exited"}
        /\ pc = "exited" => exitCode = 1

\* The fetch failed after it had delivered a message, and the process ended.
C10_Witness ==
    /\ fpc = "failed"
    /\ sent >= 1
    /\ pc = "exited"
    /\ LogsOf("Error getting messages:") # {}

\* The fetched messages convert was called on that have no body, or a body
\* the mail reader cannot open.
BadBodies == { i \in 1..received : wire[i].body # "ok" }

\* C11: when convert has been handed a message without body, or with a body
\* the mail reader cannot open, the process has ended with status 1 at that
\* message: it is the last one taken from the channel, the mails are the
\* messages before it, nothing after it was converted, and no Store, no
\* Expunge and no printer call was made, nor the attachments accumulated.
C11_BadBodyIsFatal ==
    BadBodies # {} =>
        /\ pc = "exited" /\ exitCode = 1
        /\ BadBodies = {received}
        /\ Len(mails) = received - 1
        /\ attachments.isNil
        /\ MutationCalls = {}
        /\ CallsOf("NewCUPSClient") \cup PrintCalls = {}
        /\ LogsOf("Printing") = {}

\* The second message had no readable body, after an eligible first one, in
\* a run that is no dry run.
C11_Witness ==
    /\ ~DryRun
    /\ received = 2
    /\ wire[2].body # "ok"
    /\ Len(mails) = 1
    /\ isValid(mails[1], Allowed, Extensions)
    /\ pc = "exited"

\* The session with the mail server is open: Login succeeded, so that Select
\* was called.
SessionOpened == CallsOf("Select") # {}

\* C12, as stated: when the process has ended after the session was opened,
\* both a Logout and a Close of the session were called before.
C12_LogoutAndCloseOnEveryExit ==
    (pc = "exited" /\ SessionOpened) =>
        /\ CallsOf("Logout") # {}
        /\ CallsOf("Close") # {}

\* The declared filename has no ".".
Dotless(name) == \A i \in 1..Len(name) : name[i] # "."

\* C13, as stated: a mail all of whose attachments have a declared filename
\* without "." fails the extension check and is not valid, whatever the
\* scratch directory and the extension allow-list are.
C13_DotlessNeverCounts ==
    (/\ polOut.done
     /\ \A i \in 1..Len(polIn.m.Attachments) : Dotless(polIn.m.Attachments[i].Name))
        => (~polOut.ValidAttachments /\ ~polOut.Status)

\* What the flag of an option stands for: nothing when it is not given (or
\* given empty, or as the default mailbox name), else its value, the lists
\* split at ":".
FlagGiven(name) ==
    /\ TrimSpace(conf.flags[name]) # <<>>
    /\ name = "mbox" => conf.flags[name] # MailboxName
FlagValue(name) ==
    IF name \in {"allowed", "extensions"} THEN Split(TrimSpace(conf.flags[name]), ":")
    ELSE TrimSpace(conf.flags[name])

\* The field of the configuration that belongs to an option.
Field(c, name) ==
    CASE name = "addr" -> c.Addr
      [] name = "user" -> c.User
      [] name = "pass" -> c.Pass
      [] name = "mbox" -> c.Mailbox
      [] name = "printer" -> c.Printer
      [] name = "allowed" -> c.Allowed
      [] name = "extensions" -> c.Extensions

\* C14, as stated: once config has resolved the configuration, each of the
\* seven options holds the value of its flag when the flag is given with a
\* non-empty value, and the value of the environment when it is not.
C14_FlagsOverrideEnvironment ==
    conf.done =>
        \A name \in {"addr", "user", "pass", "mbox", "printer", "allowed", "extensions"} :
            Field(conf.cfg, name) = IF FlagGiven(name) THEN FlagValue(name)
                                    ELSE Field(conf.env, name)

\* The goroutine of the fetch is blocked in its send on the full channel
\* messages while getMails is blocked in its receive from the empty channel
\* done: neither can take a step before the other does.
FetchBlocked ==
    /\ fpc = "running"
    /\ sent < Len(wire)
    /\ Len(messages) = msgcount
    /\ pc = "await"
    /\ done = <<>>

\* C15, as stated: the goroutine of the fetch is never blocked on the full
\* buffer while getMails waits for it, however many responses the server
\* sends; and when getMails has returned after a fetch without error, it
\* has taken every delivered response from the channel, each once and in
\* the order of delivery.
C15_GetMailsNeverDeadlocks ==
    /\ ~FetchBlocked
    /\ (pc = "getAttachments" /\ fpc = "returned") =>
         /\ sent = Len(wire) /\ received = sent /\ messages = <<>>
         /\ Len(mails) = received
         /\ \A i \in 1..Len(mails) : mails[i].From = wire[i].from

\* Where the loop over the parts ends: the first position at which NextPart
\* returns io.EOF or an error.
StopAt(io) ==
    CHOOSE i \in 1..Len(io) :
        /\ io[i] \in {"eof", "next_err"}
        /\ \A j \in 1..(i - 1) : io[j] \notin {"eof", "next_err"}

\* The part stream was read to its end.
ReadToEnd(parts, io) == StopAt(io) = Len(parts) + 1 /\ io[StopAt(io)] = "eof"

\* The positions, in document order, of the attachment parts the loop came
\* to whose temp file was created and written in full.
StoredParts(parts, io) ==
    LET Stored(i) == parts[i].kind = "attachment" /\ io[i] = "ok"
    IN  SelectSeq([i \in 1..(StopAt(io) - 1) |-> i], Stored)

\* The attachment entries of those parts of the k-th message.
StoredAttachments(parts, io, dir, k) ==
    LET at == StoredParts(parts, io)
    IN  [j \in 1..Len(at) |->
            [File |-> TempFileName(dir, Digit(k) \o Digit(at[j]), parts[at[j]].filename),
             Name |-> parts[at[j]].filename]]

\* C16: the attachments of the Mail convert returns are the entries of the
\* attachment parts it came to whose temp file was created and written in
\* full, in document order, each with the file of its own part; a part whose
\* creation or copy failed has no entry and takes no other part's entry
\* away; and isValid of the Mail is the admission rule on those entries.
C16_OnlyStoredAttachments ==
    conv.done =>
        /\ conv.m.Attachments =
             StoredAttachments(conv.msg.parts, conv.io, TmpDir, 1)
        /\ conv.m.From = conv.msg.from
        /\ conv.valid <=>
             Eligible([From |-> conv.msg.from,
                       Attachments |-> StoredAttachments(conv.msg.parts, conv.io, TmpDir, 1)],
                      Allowed, Extensions)

\* A message of two attachments read to its end: the copy of the .doc failed,
\* the .pdf was stored, and the Mail is valid with the one attachment.
C16_Witness ==
    /\ conv.done
    /\ ReadToEnd(conv.msg.parts, conv.io)
    /\ Len(conv.msg.parts) = 2
    /\ conv.msg.parts[1] = Part("attachment", F_doc)
    /\ conv.io[1] = "copy_fail"
    /\ conv.io[2] = "ok"
    /\ Len(conv.m.Attachments) = 1
    /\ conv.m.Attachments[1].Name = F_pdf
    /\ conv.valid

\* shutdown has run: its Logout is in the trace.
ShutdownDone == pc = "exited" /\ CallsOf("Logout") # {}

\* C17: every recursive removal in the trace has cmd.TmpDir as its target,
\* and that is neither the empty path nor os.TempDir(); and when shutdown
\* has run, the scratch directory was removed, once, exactly when its
\* recorded path is non-empty and differs from os.TempDir().
C17_RemovalIsGuarded ==
    /\ \A i \in CallsOf("RemoveAll") :
         /\ trace[i].arg = TmpDir
         /\ trace[i].arg # <<>>
         /\ trace[i].arg # osTempDir
    /\ ShutdownDone =>
         Cardinality(CallsOf("RemoveAll")) =
             IF TmpDir # <<>> /\ TmpDir # osTempDir THEN 1 ELSE 0

\* shutdown has run with the OS temp root recorded as the scratch directory,
\* and has removed nothing.
C17_Witness ==
    /\ ShutdownDone
    /\ TmpDir = osTempDir
    /\ CallsOf("RemoveAll") = {}

\* The storage paths of the attachments of a mail.
FilesOf(m) == { m.Attachments[j].File : j \in 1..Len(m.Attachments) }

\* C18: every file submitted to the printer is the storage path of an
\* attachment of a converted mail whose sender, the sender of the fetched
\* message it was converted from, is an exact member of the sender
\* allow-list; and no attachment of a mail whose sender is not in the list
\* is submitted, whatever its extension and the other mails of the batch.
C18_OnlyAllowedSendersPrinted ==
    /\ \A i \in PrintCalls :
         \E k \in 1..Len(mails) :
            /\ trace[i].arg \in FilesOf(mails[k])
            /\ mails[k].From = wire[k].from
            /\ mails[k].From \in Members(Allowed)
    /\ \A k \in 1..Len(mails) :
         mails[k].From \notin Members(Allowed) =>
            \A i \in PrintCalls : trace[i].arg \notin FilesOf(mails[k])

\* A batch of two mails, each with a .pdf attachment: the one of the allowed
\* sender was submitted, the one of the other sender was not.
C18_Witness ==
    /\ ~DryRun
    /\ PrintDone
    /\ Len(mails) = 2
    /\ \E k, l \in 1..2 :
         /\ mails[k].From \in Members(Allowed)
         /\ mails[l].From \notin Members(Allowed)
         /\ validAttachments(mails[l], Extensions)
         /\ \E i \in PrintCalls : trace[i].arg \in FilesOf(mails[k])

\* The "Nothing to do" lines of doprint.
NothingToDoLines ==
    { i \in LogsOf("Printing") : trace[i].arg = <<"Nothing to do">> }

\* C19, as stated: when doprint has run on an empty sequence of attachments,
\* it has logged "Nothing to do" and has not made the CUPS client nor
\* submitted a file.
C19_EmptyIsNothingToDo ==
    (PrintDone /\ Len(attachments.elems) = 0) =>
        /\ NothingToDoLines # {}
        /\ CallsOf("NewCUPSClient") = {}
        /\ PrintCalls = {}

=============================================================================
